---- MODULE Spec2Model ----
(***************************************************************************)
(* Workify: the job-processing orchestrator, the feedback aggregator and   *)
(* the in-memory TTL cache, as state machines.                             *)
(*                                                                         *)
(* Spec       the job-processing route, the asynchronous feedback task and *)
(*            POST /api/feedback/generate, interleaved at their awaits.    *)
(* FairSpec   Spec with the event loop's fairness for liveness.            *)
(* ScoreSpec  generateFeedback applied to enumerated inputs.               *)
(* CacheSpec  MemoryCache alone: set, get and the clock.                   *)
(* FetchSpec  getCachedOrFetch on a cache whose operations may fault.      *)
(* AiSpec     generateTailoredContent and generateFeedbackInsights through *)
(*            the cache, with varying intents and scores.                  *)
(* ExperienceSpec  calculateExperienceAlignment through the cache.         *)
(* CoverageSpec    calculateSkillCoverage on enumerated skill lists.       *)
(* EvictionSpec    MemoryCache of capacity three: set and get.             *)
(* OpsSpec    every MemoryCache operation and overlapping getCachedOrFetch *)
(*            calls.                                                       *)
(* RateSpec   the rate limiter in front of the job-processing route.       *)
(***************************************************************************)
EXTENDS Integers, Sequences, FiniteSets, TLC

(***************************************************************************)
(* JavaScript numbers.  The scores are IEEE-754 binary64 values.  Every    *)
(* value the scoring code computes is a non-negative multiple of 2^-56     *)
(* below 2^7, so a number is modelled exactly as the integer               *)
(*   hi * 2^42 + mid * 2^21 + lo      (in units of 2^-56)                  *)
(* held as three limbs below 2^21.  Products and sums are formed exactly   *)
(* and then rounded to the 53 significant bits of a double, ties to even,  *)
(* as the hardware does.                                                   *)
(***************************************************************************)
LimbBits == 21
FracBits == 56
MantBits == 53

Limb == 2 ^ LimbBits

\* The element of a one-element set.  { F(v) : v \in {e} } evaluates e once
\* and applies F to its value.
Only(S) == CHOOSE v \in S : TRUE

Fix(h, m, l) == [hi |-> h, mid |-> m, lo |-> l]

\* Carry propagation after limb-wise arithmetic.
Normalize(h, m, l) ==
  LET m1 == m + (l \div Limb)
  IN Fix(h + (m1 \div Limb), m1 % Limb, l % Limb)

\* Exact sum of two values.
AddFix(x, y) == Normalize(x.hi + y.hi, x.mid + y.mid, x.lo + y.lo)

\* Exact product of the integer n (0 <= n <= 100) and a value.
MulSmall(n, x) == Normalize(n * x.hi, n * x.mid, n * x.lo)

\* Number of significant bits of a natural number.
RECURSIVE NatBitLen(_)
NatBitLen(n) == IF n = 0 THEN 0 ELSE Only({1 + NatBitLen(half) : half \in {n \div 2}})

BitLen(x) ==
  IF x.hi > 0 THEN 2 * LimbBits + NatBitLen(x.hi)
  ELSE IF x.mid > 0 THEN LimbBits + NatBitLen(x.mid)
  ELSE NatBitLen(x.lo)

\* x with the low bits below unit = 2^sh cut off and the last kept bit
\* rounded: up when the cut-off part is above half a unit, or is exactly half
\* and the kept part is odd (ties to even).
RoundAtUnit(x, unit) ==
  LET rest == x.lo % unit
      odd == (x.lo \div unit) % 2 = 1
  IN IF 2 * rest > unit \/ (2 * rest = unit /\ odd)
     THEN Normalize(x.hi, x.mid, x.lo - rest + unit)
     ELSE Normalize(x.hi, x.mid, x.lo - rest)

RoundBits(x, sh) ==
  IF sh <= 0 THEN x ELSE Only({RoundAtUnit(x, unit) : unit \in {2 ^ sh}})

\* Round an exact value to the nearest double, ties to even.  A value below
\* 2^7 has at most 63 bits, so the bits cut off lie in the low limb.
RoundToDouble(x) ==
  Only({Only({RoundBits(v, sh) : sh \in {BitLen(v) - MantBits}}) : v \in {x}})

\* n * w and x + y in double arithmetic.
FMul(n, w) == RoundToDouble(MulSmall(n, w))
FAdd(x, y) == Only({RoundToDouble(AddFix(a, b)) : a \in {x}, b \in {y}})

\* Math.round: the nearest integer, a tie going up: floor(x + 1/2) on the
\* exact value.  2^56 is 2^14 units of the high limb.
MathRound(x) ==
  (x.hi + 2 ^ (FracBits - 2 * LimbBits - 1)) \div (2 ^ (FracBits - 2 * LimbBits))

\* The doubles nearest to the decimal literals of the scoring code:
\* 0.6 = 0x13333333333333 * 2^-53, 0.3 = 0x13333333333333 * 2^-54,
\* 0.1 = 0x1999999999999A * 2^-56, 0.8 = 0x1999999999999A * 2^-53.
Double06 == Fix(9830, 838860, 1677720)
Double03 == Fix(4915, 419430, 838860)
Double01 == Fix(1638, 838860, 1677722)
Double08 == Fix(13107, 419430, 838864)

(***************************************************************************)
(* Bounds of the model.                                                    *)
(***************************************************************************)
\* Job-processing requests (POST /api/jobs/process/[id]) that may be in flight.
MaxReqs == 2
\* POST /api/feedback/generate requests that may be in flight.
MaxRouteReqs == 1
\* Jobs of the user.
MaxJobs == 1
\* The largest score (a percentage) given to the scoring functions.
MaxScore == 100
\* maxSize of the cache exercised on its own, and the last instant of its clock.
CacheCapacity == 2
MaxTime == 3

ReqIds == 1..MaxReqs
RouteIds == 1..MaxRouteReqs
JobIds == 1..MaxJobs

\* A column or property that holds no number (SQL NULL, JavaScript undefined).
Null == -1

(***************************************************************************)
(* The cache (MemoryCache).  A Map keeps insertion order, so the map is a  *)
(* sequence of entries, oldest insertion first.                            *)
(***************************************************************************)
\* openaiCache: 30 minutes default TTL (one clock unit), 500 entries.
OpenaiDefaultTTL == 1
OpenaiMaxSize == 500
OpenaiConfig == [defaultTTL |-> OpenaiDefaultTTL, maxSize |-> OpenaiMaxSize]
\* The TTLs the call sites pass: 30 minutes and 1 hour.
SimilarityTTL == 1
HourTTL == 2

CacheIndex(c, key) ==
  IF \E i \in 1..Len(c) : c[i].key = key
  THEN CHOOSE i \in 1..Len(c) : c[i].key = key
  ELSE 0

CacheRemoveAt(c, i) == [k \in 1..(Len(c) - 1) |-> IF k < i THEN c[k] ELSE c[k + 1]]

\* Map.set: a present key keeps its place, a new key goes last.
MapSet(c, entry) ==
  LET i == CacheIndex(c, entry.key)
  IN IF i = 0 THEN Append(c, entry) ELSE [c EXCEPT ![i] = entry]

\* Variant of set that never makes room.
CacheSetWithoutEviction(c, config, key, data, ttl, t) ==
  LET life == IF ttl = Null \/ ttl = 0 THEN config.defaultTTL ELSE ttl
  IN MapSet(c, [key |-> key, data |-> data, timestamp |-> t, ttl |-> life])

\* MemoryCache.set(key, data, ttl) at time t; ttl = Null when omitted.
CacheSet(c, config, key, data, ttl, t) ==
  LET room == IF Len(c) >= config.maxSize /\ Len(c) > 0 THEN Tail(c) ELSE c
      life == IF ttl = Null \/ ttl = 0 THEN config.defaultTTL ELSE ttl
  IN MapSet(room, [key |-> key, data |-> data, timestamp |-> t, ttl |-> life])

Expired(entry, t) == t - entry.timestamp > entry.ttl

\* MemoryCache.get(key) at time t: whether a value is returned, and the map after.
CacheGetHit(c, key, t) ==
  LET i == CacheIndex(c, key)
  IN i # 0 /\ ~Expired(c[i], t)

CacheGetData(c, key) == c[CacheIndex(c, key)].data

CacheAfterGet(c, key, t) ==
  LET i == CacheIndex(c, key)
  IN IF i # 0 /\ Expired(c[i], t) THEN CacheRemoveAt(c, i) ELSE c

\* Variant of the sweep that steps over the entry following a deleted one.
RECURSIVE CleanupSkipping(_, _, _)
CleanupSkipping(c, i, t) ==
  IF i > Len(c) THEN c
  ELSE IF Expired(c[i], t) THEN CleanupSkipping(CacheRemoveAt(c, i), i + 1, t)
  ELSE CleanupSkipping(c, i + 1, t)

\* MemoryCache.cleanup at time t, from the i-th entry on: the loop over
\* this.cache.entries() deletes the expired entry it is at and goes on with
\* the entry that follows it.
RECURSIVE Cleanup(_, _, _)
Cleanup(c, i, t) ==
  IF i > Len(c) THEN c
  ELSE IF Expired(c[i], t) THEN Cleanup(CacheRemoveAt(c, i), i, t)
  ELSE Cleanup(c, i + 1, t)

\* hashObject: JSON.stringify(obj, Object.keys(obj).sort()).  The array is a
\* property whitelist applied at every depth, so a nested object keeps only
\* the properties named like a top-level property: none of them here.
EmptyObject == <<>>
HashObject(obj) ==
  [type |-> obj.type,
   strings |-> obj.strings,
   nested |-> [i \in DOMAIN obj.nested |-> EmptyObject]]

\* cacheKeys.openaiResponse(hashObject({ text1, text2, type: 'similarity' }))
SimilarityKey(text1, text2) ==
  HashObject([type |-> "similarity", strings |-> <<text1, text2>>, nested |-> <<>>])

\* hashObject({ resumeText, jobDescription, userIntent, type: 'tailored_content' })
ContentKey(resumeText, jobDescription, userIntent) ==
  HashObject([type |-> "tailored_content",
              strings |-> <<resumeText, jobDescription>>,
              nested |-> <<userIntent>>])

(***************************************************************************)
(* The texts.  The user has one resume; job j has one description.         *)
(***************************************************************************)
ResumeText == 0
Description(j) == j
\* The user's intent row (its content is not inspected by the orchestrator).
UserIntent == [roles |-> <<"engineer">>, work_type |-> "remote"]

(***************************************************************************)
(* Replies of the embedding model.  A similarity is a cosine given in      *)
(* thousandths: 0.694 and 0.695, for which similarityScore * 100 is 69.4    *)
(* and 69.5 in double arithmetic.                                          *)
(***************************************************************************)
Similarities == {694, 695}

\* Math.round(similarityScore * 100)
FitScoreOf(sim) == (sim + 5) \div 10

\* Variants of the threshold test: one point lower, and inclusive.
BelowThresholdLowered(fit) == fit < 69
BelowOrAtThreshold(fit) == fit <= 70

\* if (fitScore < 70): the fixed threshold of the orchestrator.
FitThreshold == 70
BelowThreshold(fit) == fit < FitThreshold

\* Replies of the content model: the parsed documents.
Contents == {"documents"}

(***************************************************************************)
(* Skill coverage (feedbackAnalytics.ts).  A skill is a string, held as a  *)
(* sequence of one-character strings.                                      *)
(***************************************************************************)
UpperAlphabet ==
  <<"A", "B", "C", "D", "E", "F", "G", "H", "I", "J", "K", "L", "M",
    "N", "O", "P", "Q", "R", "S", "T", "U", "V", "W", "X", "Y", "Z">>
LowerAlphabet ==
  <<"a", "b", "c", "d", "e", "f", "g", "h", "i", "j", "k", "l", "m",
    "n", "o", "p", "q", "r", "s", "t", "u", "v", "w", "x", "y", "z">>

ToLowerChar(ch) ==
  IF \E i \in 1..26 : UpperAlphabet[i] = ch
  THEN LowerAlphabet[CHOOSE i \in 1..26 : UpperAlphabet[i] = ch]
  ELSE ch

\* String.prototype.toLowerCase
ToLowerCase(str) == SubSeq([i \in 1..Len(str) |-> ToLowerChar(str[i])], 1, Len(str))

\* str.includes(part): part occurs in str as a contiguous substring.
Includes(str, part) ==
  \E start \in 0..(Len(str) - Len(part)) :
    \A k \in 1..Len(part) : str[start + k] = part[k]

MinOf(a, b) == IF a < b THEN a ELSE b
MaxOf(a, b) == IF a > b THEN a ELSE b

\* One row of the matrix of levenshteinDistance, left to right: row[i + 1]
\* is matrix[j][i]; prev is matrix[j - 1].
RECURSIVE LevRow(_, _, _, _, _)
LevRow(str1, ch, prev, row, i) ==
  IF i > Len(str1) THEN row
  ELSE Only({LevRow(str1, ch, prev, next, i + 1) :
               next \in {Append(row,
                                MinOf(MinOf(row[i] + 1, prev[i + 1] + 1),
                                      prev[i] + (IF str1[i] = ch THEN 0 ELSE 1)))}})

RECURSIVE LevRows(_, _, _, _)
LevRows(str1, str2, j, prev) ==
  IF j > Len(str2) THEN prev[Len(str1) + 1]
  ELSE Only({LevRows(str1, str2, j + 1, row) :
               row \in {LevRow(str1, str2[j], prev, <<j>>, 1)}})

levenshteinDistance(str1, str2) ==
  LevRows(str1, str2, 1, [i \in 1..(Len(str1) + 1) |-> i - 1])

\* Variant of the threshold test that admits a similarity of exactly 0.7.
SimilarityAtLeastThreshold(str1, str2) ==
  LET longer == IF Len(str1) > Len(str2) THEN str1 ELSE str2
      shorter == IF Len(str1) > Len(str2) THEN str2 ELSE str1
  IN IF Len(longer) = 0 THEN TRUE
     ELSE 10 * (Len(longer) - levenshteinDistance(longer, shorter)) >= 7 * Len(longer)

\* calculateStringSimilarity(a, b) > 0.7.  The quotient (longer - distance) /
\* longer is formed in double arithmetic and compared with the double 0.7;
\* division is correctly rounded, so for strings this short the comparison
\* agrees with 10 * (longer - distance) > 7 * longer on the exact values
\* (equality with 7/10 gives the double 0.7 itself, which is not > 0.7).
SimilarityAboveThreshold(str1, str2) ==
  LET longer == IF Len(str1) > Len(str2) THEN str1 ELSE str2
      shorter == IF Len(str1) > Len(str2) THEN str2 ELSE str1
  IN IF Len(longer) = 0 THEN TRUE
     ELSE 10 * (Len(longer) - levenshteinDistance(longer, shorter)) > 7 * Len(longer)

\* Variant that gives the percentage of the skills that are not matched.
PercentOfUnmatched(matches, total) == (200 * (total - matches) + total) \div (2 * total)

\* Math.round((totalMatches / jobSkills.length) * 100).  A tie (.5) needs a
\* list of 8 or more job skills; below that the double result rounds as the
\* exact quotient does.
PercentOf(matches, total) == (200 * matches + total) \div (2 * total)

\* skills.map(s => s.toLowerCase()), as a sequence value.
LowerAll(skills) ==
  SubSeq([i \in 1..Len(skills) |-> ToLowerCase(skills[i])], 1, Len(skills))

\* The matching of calculateSkillCoverage on the lower-cased lists.
MatchedPercent(resumeSkillsLower, jobSkillsLower) ==
  LET exactMatches ==
        {j \in 1..Len(jobSkillsLower) :
           \E r \in 1..Len(resumeSkillsLower) :
             \/ Includes(resumeSkillsLower[r], jobSkillsLower[j])
             \/ Includes(jobSkillsLower[j], resumeSkillsLower[r])}
      partialMatches ==
        {j \in 1..Len(jobSkillsLower) :
           \E r \in 1..Len(resumeSkillsLower) :
             SimilarityAboveThreshold(jobSkillsLower[j], resumeSkillsLower[r])}
      \* new Set([...exactMatches, ...partialMatches]).size: a set of strings
      totalMatches ==
        Cardinality({jobSkillsLower[j] : j \in exactMatches \cup partialMatches})
  IN PercentOf(totalMatches, Len(jobSkillsLower))

\* Variant that scores an empty job list as nothing covered.
calculateSkillCoverageEmptyIsZero(resumeSkills, jobSkills) ==
  IF Len(jobSkills) = 0 THEN 0
  ELSE MatchedPercent(LowerAll(resumeSkills), LowerAll(jobSkills))

calculateSkillCoverage(resumeSkills, jobSkills) ==
  IF Len(jobSkills) = 0 THEN 100
  ELSE Only({MatchedPercent(resumeSkillsLower, jobSkillsLower) :
               resumeSkillsLower \in {LowerAll(resumeSkills)},
               jobSkillsLower \in {LowerAll(jobSkills)}})

(***************************************************************************)
(* Replies of the language model.  A reply is ok (a JSON object came back  *)
(* and parsed) or not (the call or JSON.parse threw).                      *)
(***************************************************************************)
Failed == [ok |-> FALSE]
Reply(v) == [ok |-> TRUE, val |-> v]

\* extractSkills: result.skills || []
SkillsOf(reply) == reply.val

\* calculateExperienceAlignment: Math.min(100, Math.max(0, result.score || 50));
\* val = Null when the object carries no score.
ExperienceOf(reply) ==
  LET score == IF reply.val = Null \/ reply.val = 0 THEN 50 ELSE reply.val
  IN MinOf(100, MaxOf(0, score))

NoInsights == [strengths |-> <<>>, gaps |-> <<>>, recommendations |-> <<>>]

\* generateFeedbackInsights: result.strengths || [], ...
InsightsOf(reply) == reply.val

\* hashObject({ text, type: 'skill_extraction' })
SkillKey(text) ==
  HashObject([type |-> "skill_extraction", strings |-> <<text>>, nested |-> <<>>])

\* hashObject({ resumeText, jobDescription, type: 'experience_alignment' })
ExperienceKey(resumeText, jobDescription) ==
  HashObject([type |-> "experience_alignment",
              strings |-> <<resumeText, jobDescription>>,
              nested |-> <<>>])

\* hashObject({ resumeText, jobDescription, scores, type: 'feedback_insights' })
InsightsKey(resumeText, jobDescription, scores) ==
  HashObject([type |-> "feedback_insights",
              strings |-> <<resumeText, jobDescription>>,
              nested |-> <<scores>>])

\* getCachedOrFetch(openaiCache, key, fetchFn, ttl) run to completion at time
\* t: fetchFn's reply decides a miss.  data is the value returned when ok.
GetCachedOrFetch(c, key, reply, value, ttl, t) ==
  IF CacheGetHit(c, key, t)
  THEN [ok |-> TRUE, data |-> CacheGetData(c, key), cache |-> c, fetched |-> FALSE]
  ELSE IF reply.ok
       THEN [ok |-> TRUE, data |-> value,
             cache |-> CacheSet(CacheAfterGet(c, key, t), OpenaiConfig, key, value, ttl, t),
             fetched |-> TRUE]
       ELSE [ok |-> FALSE, data |-> Null,
             cache |-> CacheAfterGet(c, key, t), fetched |-> TRUE]

(***************************************************************************)
(* generateFeedback (feedbackAnalytics.ts).                                *)
(***************************************************************************)
\* Math.round(semantic * 0.6 + skill * 0.3 + experience * 0.1)
WeightedProbability(semantic, skill, experience) ==
  MathRound(FAdd(FAdd(FMul(semantic, Double06), FMul(skill, Double03)),
                 FMul(experience, Double01)))

Clamp(n) == MinOf(100, MaxOf(0, n))

\* Variant of the catch branch that falls back to the weight 0.6.
FallbackScoresWeighted(semantic) ==
  [selection_probability |-> MathRound(FMul(semantic, Double06)),
   semantic_similarity_score |-> semantic,
   skill_coverage_score |-> 50,
   experience_alignment_score |-> 50,
   insights |-> NoInsights]

\* The catch branch: fallback scores.
FallbackScores(semantic) ==
  [selection_probability |-> MathRound(FMul(semantic, Double08)),
   semantic_similarity_score |-> semantic,
   skill_coverage_score |-> 50,
   experience_alignment_score |-> 50,
   insights |-> NoInsights]

\* The scores returned when no step throws.
FeedbackScores(semantic, skill, experience, insights) ==
  [selection_probability |-> Clamp(WeightedProbability(semantic, skill, experience)),
   semantic_similarity_score |-> semantic,
   skill_coverage_score |-> skill,
   experience_alignment_score |-> experience,
   insights |-> insights]

\* The outcome of generateFeedback: the scores returned and the cache after.
Outcome(scores, c, fellBack) == [scores |-> scores, cache |-> c, fellBack |-> fellBack]

\* Step 5, after the insight call ins: the return statement or the catch.
AfterInsights(semantic, skill, experience, ins) ==
  IF ins.ok
  THEN Outcome(FeedbackScores(semantic, skill, experience, ins.data), ins.cache, FALSE)
  ELSE Outcome(FallbackScores(semantic), ins.cache, TRUE)

\* Steps 4 and 5, after the experience call ex.
AfterExperience(t, resumeText, jobDescription, semantic, skill, ex, ai) ==
  IF ex.ok
  THEN Only({AfterInsights(semantic, skill, ex.data, ins) :
               ins \in {GetCachedOrFetch(
                          ex.cache,
                          InsightsKey(resumeText, jobDescription,
                                      [semantic |-> semantic, skills |-> skill,
                                       experience |-> ex.data]),
                          ai.insights,
                          IF ai.insights.ok THEN InsightsOf(ai.insights) ELSE NoInsights,
                          HourTTL, t)}})
  ELSE Outcome(FallbackScores(semantic), ex.cache, TRUE)

\* Steps 2 and 3, with the skill coverage computed and the cache c after
\* both extractions.
AfterCoverage(c, t, resumeText, jobDescription, semantic, skill, ai) ==
  Only({AfterExperience(t, resumeText, jobDescription, semantic, skill, ex, ai) :
          ex \in {GetCachedOrFetch(
                    c, ExperienceKey(resumeText, jobDescription), ai.experience,
                    IF ai.experience.ok THEN ExperienceOf(ai.experience) ELSE Null,
                    HourTTL, t)}})

\* After Promise.all of the two extractions rs and js (js ran on rs's cache).
AfterSkills(t, resumeText, jobDescription, semantic, rs, js, ai) ==
  IF rs.ok /\ js.ok
  THEN Only({AfterCoverage(js.cache, t, resumeText, jobDescription, semantic, skill, ai) :
               skill \in {calculateSkillCoverage(rs.data, js.data)}})
  ELSE Outcome(FallbackScores(semantic), js.cache, TRUE)

AfterResumeSkills(t, resumeText, jobDescription, semantic, rs, ai) ==
  Only({AfterSkills(t, resumeText, jobDescription, semantic, rs, js, ai) :
          js \in {GetCachedOrFetch(
                    rs.cache, SkillKey(jobDescription), ai.jobSkills,
                    IF ai.jobSkills.ok THEN SkillsOf(ai.jobSkills) ELSE <<>>,
                    HourTTL, t)}})

\* generateFeedback with the cache c at time t and the model's replies ai.
\* Every getCachedOrFetch is run to completion in program order.
generateFeedback(c, t, resumeText, jobDescription, semantic, ai) ==
  Only({AfterResumeSkills(t, resumeText, jobDescription, semantic, rs, ai) :
          rs \in {GetCachedOrFetch(
                    c, SkillKey(resumeText), ai.resumeSkills,
                    IF ai.resumeSkills.ok THEN SkillsOf(ai.resumeSkills) ELSE <<>>,
                    HourTTL, t)}})

(***************************************************************************)
(* Replies the language model gives in the orchestrated runs.              *)
(***************************************************************************)
SkillGo == <<"G", "o">>
SkillRust == <<"r", "u", "s", "t">>
ResumeSkillReplies == {Failed, Reply(<<SkillGo>>)}
JobSkillReplies == {Reply(<<SkillGo, SkillRust>>)}
ExperienceReplies == {Failed, Reply(80)}
SomeInsights ==
  [strengths |-> <<"skill">>, gaps |-> <<"experience">>, recommendations |-> <<"content">>]
InsightReplies == {Failed, Reply(SomeInsights)}
AiReplies ==
  [resumeSkills : ResumeSkillReplies, jobSkills : JobSkillReplies,
   experience : ExperienceReplies, insights : InsightReplies]

(***************************************************************************)
(* State.                                                                  *)
(***************************************************************************)
VARIABLES
  jobs,      \* table jobs: job id -> [status, fit_score]
  tailors,   \* table tailors: the rows in insertion order; a row's id is its index
  feedback,  \* table feedback: the rows in insertion order
  cache,     \* openaiCache
  now,       \* Date.now(), in units of 30 minutes
  req,       \* the job-processing requests: where each one is suspended
  fb,        \* the feedback-generation attempts: where each one is suspended
  input,     \* ScoreSpec: the arguments of the call under test
  output     \* ScoreSpec: what the call returned

vars == <<jobs, tailors, feedback, cache, now, req, fb, input, output>>

\* A feedback-generation attempt is the generateFeedbackAsync call of a
\* job-processing request or a POST /api/feedback/generate request.
AsyncOf(r) == <<"async", r>>
RouteOf(q) == <<"route", q>>
Attempts == {AsyncOf(r) : r \in ReqIds} \cup {RouteOf(q) : q \in RouteIds}
IsAsync(a) == a[1] = "async"

NoResponse == [http |-> 0, status |-> "", fitScore |-> Null, tailorId |-> Null]
NoScores ==
  [selection_probability |-> Null, semantic_similarity_score |-> Null,
   skill_coverage_score |-> Null, experience_alignment_score |-> Null,
   insights |-> NoInsights]

IdleRequest ==
  [pc |-> "idle", job |-> Null, sim |-> Null, fit |-> Null, content |-> "",
   tailorId |-> Null, calledContent |-> FALSE, failedAt |-> "",
   response |-> NoResponse]

\* seen: the number of feedback rows of the tailor when the existence check
\* ran; alone: no other attempt for the tailor was past its check and
\* unfinished at that moment.
NoAttempt ==
  [pc |-> "none", tailor |-> Null, semantic |-> Null, scores |-> NoScores,
   seen |-> Null, alone |-> TRUE, generated |-> FALSE, fellBack |-> FALSE,
   inserted |-> FALSE, dbFault |-> FALSE, http |-> 0]

\* The tables, the cache and the handlers after start-up.
Idle ==
  /\ jobs = [j \in JobIds |-> [status |-> "pending", fit_score |-> Null]]
  /\ tailors = <<>>
  /\ feedback = <<>>
  /\ cache = <<>>
  /\ now = 0
  /\ req = [r \in ReqIds |-> IdleRequest]
  /\ fb = [a \in Attempts |-> NoAttempt]

NoInput == [fn |-> "none"]
NoOutput == [returned |-> FALSE]

Init ==
  /\ Idle
  /\ input = NoInput
  /\ output = NoOutput

(***************************************************************************)
(* POST /api/jobs/process/[id].  One action per resumption of the handler: *)
(* the awaited call completes and the handler runs to its next await.      *)
(***************************************************************************)
Respond(http, status, fitScore, tailorId) ==
  [http |-> http, status |-> status, fitScore |-> fitScore, tailorId |-> tailorId]

\* catch (error): { message: 'Internal server error' }, status 500
InternalServerError == Respond(500, "", Null, Null)

\* The handler after calculateSimilarity resolved with sim: fitScore is
\* computed and the update of jobs.fit_score is issued.
AfterSimilarity(rq, sim) ==
  [rq EXCEPT !.sim = sim, !.fit = FitScoreOf(sim), !.pc = "updateFit"]

\* Rate limit passed, user, job, profile and intent read; calculateSimilarity
\* looks the pair of texts up in the cache and on a miss asks for embeddings.
ProcessStart(r, j) ==
  /\ req[r].pc = "idle"
  /\ LET key == SimilarityKey(ResumeText, Description(j))
         rq == [req[r] EXCEPT !.job = j]
     IN /\ cache' = CacheAfterGet(cache, key, now)
        /\ req' = [req EXCEPT ![r] =
                     IF CacheGetHit(cache, key, now)
                     THEN AfterSimilarity(rq, CacheGetData(cache, key))
                     ELSE [rq EXCEPT !.pc = "embedding"]]
  /\ UNCHANGED <<jobs, tailors, feedback, now, fb, input, output>>

\* Both embeddings arrive: the similarity is cached for 30 minutes.
EmbeddingReturns(r, sim) ==
  /\ req[r].pc = "embedding"
  /\ cache' = CacheSet(cache, OpenaiConfig,
                       SimilarityKey(ResumeText, Description(req[r].job)),
                       sim, SimilarityTTL, now)
  /\ req' = [req EXCEPT ![r] = AfterSimilarity(req[r], sim)]
  /\ UNCHANGED <<jobs, tailors, feedback, now, fb, input, output>>

\* Variant of the failure in which getCachedOrFetch stores before it awaits.
EmbeddingFailsStoring(r) ==
  /\ req[r].pc = "embedding"
  /\ cache' = CacheSet(cache, OpenaiConfig,
                       SimilarityKey(ResumeText, Description(req[r].job)),
                       Null, SimilarityTTL, now)
  /\ req' = [req EXCEPT ![r] =
               [@ EXCEPT !.pc = "done", !.failedAt = "embedding",
                         !.response = InternalServerError]]
  /\ UNCHANGED <<jobs, tailors, feedback, now, fb, input, output>>

\* The embedding call throws: getEmbedding and calculateSimilarity rethrow,
\* and the handler's catch answers 500.
EmbeddingFails(r) ==
  /\ req[r].pc = "embedding"
  /\ req' = [req EXCEPT ![r] =
               [@ EXCEPT !.pc = "done", !.failedAt = "embedding",
                         !.response = InternalServerError]]
  /\ UNCHANGED <<jobs, tailors, feedback, cache, now, fb, input, output>>

\* The update of fit_score lands.  Below the threshold the handler answers
\* not_a_good_fit; otherwise generateTailoredContent looks its key up.
UpdateFitScore(r) ==
  /\ req[r].pc = "updateFit"
  /\ jobs' = [jobs EXCEPT ![req[r].job].fit_score = req[r].fit]
  /\ IF BelowThreshold(req[r].fit)
     THEN /\ req' = [req EXCEPT ![r] =
                       [@ EXCEPT !.pc = "done",
                                 !.response =
                                   Respond(200, "not_a_good_fit", req[r].fit, Null)]]
          /\ cache' = cache
     ELSE LET key == ContentKey(ResumeText, Description(req[r].job), UserIntent)
          IN /\ cache' = CacheAfterGet(cache, key, now)
             /\ req' = [req EXCEPT ![r] =
                          IF CacheGetHit(cache, key, now)
                          THEN [@ EXCEPT !.calledContent = TRUE,
                                         !.content = CacheGetData(cache, key),
                                         !.pc = "insertTailor"]
                          ELSE [@ EXCEPT !.calledContent = TRUE, !.pc = "content"]]
  /\ UNCHANGED <<tailors, feedback, now, fb, input, output>>

\* The completion arrives and parses: the documents are cached for an hour
\* and the insert into tailors is issued.
ContentReturns(r, content) ==
  /\ req[r].pc = "content"
  /\ cache' = CacheSet(cache, OpenaiConfig,
                       ContentKey(ResumeText, Description(req[r].job), UserIntent),
                       content, HourTTL, now)
  /\ req' = [req EXCEPT ![r] = [@ EXCEPT !.content = content, !.pc = "insertTailor"]]
  /\ UNCHANGED <<jobs, tailors, feedback, now, fb, input, output>>

\* The completion call or JSON.parse throws: the handler's catch answers 500.
ContentFails(r) ==
  /\ req[r].pc = "content"
  /\ req' = [req EXCEPT ![r] =
               [@ EXCEPT !.pc = "done", !.failedAt = "content",
                         !.response = InternalServerError]]
  /\ UNCHANGED <<jobs, tailors, feedback, cache, now, fb, input, output>>

\* The row the handler inserts into tailors.
TailorRow(rq) ==
  [job_id |-> rq.job, documents |-> rq.content, fit_score |-> rq.fit,
   status |-> "pending_review"]

\* The insert succeeds and the update of jobs.status is issued.
InsertTailor(r) ==
  /\ req[r].pc = "insertTailor"
  /\ tailors' = Append(tailors, TailorRow(req[r]))
  /\ req' = [req EXCEPT ![r] = [@ EXCEPT !.pc = "updateStatus",
                                         !.tailorId = Len(tailors) + 1]]
  /\ UNCHANGED <<jobs, feedback, cache, now, fb, input, output>>

\* Variant of the failing insert in which the handler goes on to mark the
\* job processed.
InsertTailorFailsMarkingProcessed(r) ==
  /\ req[r].pc = "insertTailor"
  /\ jobs' = [jobs EXCEPT ![req[r].job].status = "processed"]
  /\ req' = [req EXCEPT ![r] =
               [@ EXCEPT !.pc = "done", !.failedAt = "insert",
                         !.response = Respond(500, "", Null, Null)]]
  /\ UNCHANGED <<tailors, feedback, cache, now, fb, input, output>>

\* if (tailorError): { message: 'Failed to save tailored content' }, 500
InsertTailorFails(r) ==
  /\ req[r].pc = "insertTailor"
  /\ req' = [req EXCEPT ![r] =
               [@ EXCEPT !.pc = "done", !.failedAt = "insert",
                         !.response = Respond(500, "", Null, Null)]]
  /\ UNCHANGED <<jobs, tailors, feedback, cache, now, fb, input, output>>

\* generateFeedbackAsync(tailor.id, ...) is called and not awaited: it runs
\* to its first await (the existence check is issued) and the handler goes on.
SpawnFeedback(attempts, r, tailorId) ==
  [attempts EXCEPT ![AsyncOf(r)] = [@ EXCEPT !.pc = "check", !.tailor = tailorId]]

\* The response of a processed job.
ProcessedResponse(rq) == Respond(200, "processed", rq.fit, rq.tailorId)

\* The update of status lands; feedback generation is started; the handler
\* answers.
UpdateStatus(r) ==
  /\ req[r].pc = "updateStatus"
  /\ jobs' = [jobs EXCEPT ![req[r].job].status = "processed"]
  /\ fb' = SpawnFeedback(fb, r, req[r].tailorId)
  /\ req' = [req EXCEPT ![r] = [@ EXCEPT !.pc = "done",
                                         !.response = ProcessedResponse(req[r])]]
  /\ UNCHANGED <<tailors, feedback, cache, now, input, output>>

(***************************************************************************)
(* Feedback generation: generateFeedbackAsync (job-processing route) and   *)
(* POST /api/feedback/generate.  Both check for an existing row, call      *)
(* generateFeedback and insert.                                            *)
(***************************************************************************)
FeedbackRowsOf(rows, tailorId) == {i \in 1..Len(rows) : rows[i].tailor_id = tailorId}

\* Variant of the existence check that never finds a row.
ExistingFeedbackIgnored(rows, tailorId) == FALSE

\* .from('feedback').select('id').eq('tailor_id', tailorId).single(): data is
\* the row when exactly one row matches and null otherwise.
ExistingFeedback(rows, tailorId) == Cardinality(FeedbackRowsOf(rows, tailorId)) = 1

\* Attempts for the same tailor that passed their check and have not finished.
InFlight(a) ==
  {b \in Attempts \ {a} :
     fb[b].tailor = fb[a].tailor /\ fb[b].pc \in {"lookup", "generate", "insert"}}

\* tailor.fit_score || 0
SemanticOf(tailorId) ==
  IF tailors[tailorId].fit_score = Null THEN 0 ELSE tailors[tailorId].fit_score

\* The route handler reads the tailor with its job and profile and issues
\* the existence check.
RouteStart(q, t) ==
  /\ fb[RouteOf(q)].pc = "none"
  /\ t \in 1..Len(tailors)
  /\ fb' = [fb EXCEPT ![RouteOf(q)] =
              [@ EXCEPT !.pc = "check", !.tailor = t, !.semantic = SemanticOf(t)]]
  /\ UNCHANGED <<jobs, tailors, feedback, cache, now, req, input, output>>

\* if (tailorError || !tailor): 404
RouteTailorNotFound(q) ==
  /\ fb[RouteOf(q)].pc = "none"
  /\ fb' = [fb EXCEPT ![RouteOf(q)] = [@ EXCEPT !.pc = "done", !.http = 404]]
  /\ UNCHANGED <<jobs, tailors, feedback, cache, now, req, input, output>>

\* The existence check returns.  With a row the task returns and the route
\* answers 409; without one the task reads the tailor and the route calls
\* generateFeedback.
FeedbackCheck(a) ==
  /\ fb[a].pc = "check"
  /\ LET at == [fb[a] EXCEPT
                  !.seen = Cardinality(FeedbackRowsOf(feedback, fb[a].tailor)),
                  !.alone = InFlight(a) = {}]
     IN fb' = [fb EXCEPT ![a] =
                 IF ExistingFeedback(feedback, fb[a].tailor)
                 THEN [at EXCEPT !.pc = "done", !.http = IF IsAsync(a) THEN 0 ELSE 409]
                 ELSE IF IsAsync(a)
                      THEN [at EXCEPT !.pc = "lookup"]
                      ELSE [at EXCEPT !.pc = "generate", !.generated = TRUE]]
  /\ UNCHANGED <<jobs, tailors, feedback, cache, now, req, input, output>>

\* generateFeedbackAsync reads its tailor and calls generateFeedback.
AsyncLookup(a) ==
  /\ IsAsync(a)
  /\ fb[a].pc = "lookup"
  /\ fb' = [fb EXCEPT ![a] =
              [@ EXCEPT !.pc = "generate", !.generated = TRUE,
                        !.semantic = SemanticOf(fb[a].tailor)]]
  /\ UNCHANGED <<jobs, tailors, feedback, cache, now, req, input, output>>

\* generateFeedback returns (it never throws) and the insert is issued.
FeedbackGenerate(a, ai) ==
  /\ fb[a].pc = "generate"
  /\ \E res \in {generateFeedback(cache, now, ResumeText,
                                   Description(tailors[fb[a].tailor].job_id),
                                   fb[a].semantic, ai)} :
       /\ cache' = res.cache
       /\ fb' = [fb EXCEPT ![a] =
                   [@ EXCEPT !.pc = "insert", !.scores = res.scores,
                             !.fellBack = res.fellBack]]
  /\ UNCHANGED <<jobs, tailors, feedback, now, req, input, output>>

\* The row both entry points insert.
FeedbackRow(at) ==
  [tailor_id |-> at.tailor,
   job_id |-> tailors[at.tailor].job_id,
   selection_probability |-> at.scores.selection_probability,
   semantic_similarity_score |-> at.scores.semantic_similarity_score,
   skill_coverage_score |-> at.scores.skill_coverage_score,
   experience_alignment_score |-> at.scores.experience_alignment_score,
   insights |-> at.scores.insights,
   model_version |-> "v1.0"]

\* Variant of the insert that returns without writing the row.
FeedbackInsertDropped(a) ==
  /\ fb[a].pc = "insert"
  /\ fb' = [fb EXCEPT ![a] =
              [@ EXCEPT !.pc = "done", !.http = IF IsAsync(a) THEN 0 ELSE 200]]
  /\ UNCHANGED <<jobs, tailors, feedback, cache, now, req, input, output>>

\* The insert succeeds; the route answers 200.
FeedbackInsert(a) ==
  /\ fb[a].pc = "insert"
  /\ feedback' = Append(feedback, FeedbackRow(fb[a]))
  /\ fb' = [fb EXCEPT ![a] =
              [@ EXCEPT !.pc = "done", !.inserted = TRUE,
                        !.http = IF IsAsync(a) THEN 0 ELSE 200]]
  /\ UNCHANGED <<jobs, tailors, cache, now, req, input, output>>

\* Variant of the failing insert in which the handler had awaited the task:
\* the error reaches the handler's catch and replaces the response.
FeedbackInsertFailsSurfacing(a) ==
  /\ fb[a].pc = "insert"
  /\ fb' = [fb EXCEPT ![a] =
              [@ EXCEPT !.pc = "done", !.dbFault = TRUE,
                        !.http = IF IsAsync(a) THEN 0 ELSE 500]]
  /\ req' = IF IsAsync(a)
            THEN [req EXCEPT ![a[2]] = [@ EXCEPT !.response = InternalServerError]]
            ELSE req
  /\ UNCHANGED <<jobs, tailors, feedback, cache, now, input, output>>

\* The insert fails: the task ignores the error, the route answers 500.
FeedbackInsertFails(a) ==
  /\ fb[a].pc = "insert"
  /\ fb' = [fb EXCEPT ![a] =
              [@ EXCEPT !.pc = "done", !.dbFault = TRUE,
                        !.http = IF IsAsync(a) THEN 0 ELSE 500]]
  /\ UNCHANGED <<jobs, tailors, feedback, cache, now, req, input, output>>

ProcessStep(r) ==
  \/ \E j \in JobIds : ProcessStart(r, j)
  \/ \E sim \in Similarities : EmbeddingReturns(r, sim)
  \/ EmbeddingFails(r)
  \/ UpdateFitScore(r)
  \/ \E content \in Contents : ContentReturns(r, content)
  \/ ContentFails(r)
  \/ InsertTailor(r)
  \/ InsertTailorFails(r)
  \/ UpdateStatus(r)

FeedbackStep(a) ==
  \/ FeedbackCheck(a)
  \/ AsyncLookup(a)
  \/ \E ai \in AiReplies : FeedbackGenerate(a, ai)
  \/ FeedbackInsert(a)
  \/ FeedbackInsertFails(a)

RouteEntry(q) ==
  \/ \E t \in 1..MaxReqs : RouteStart(q, t)
  \/ RouteTailorNotFound(q)

Next ==
  \/ \E r \in ReqIds : ProcessStep(r)
  \/ \E q \in RouteIds : RouteEntry(q)
  \/ \E a \in Attempts : FeedbackStep(a)

Spec == Init /\ [][Next]_vars

(***************************************************************************)
(* generateFeedback on its own: the arguments are drawn in the initial     *)
(* state and one step applies the function.                                *)
(***************************************************************************)
\* Experience scores paired with every semantic and skill score.
ExperienceScores == 0..9 \cup {50, MaxScore}

\* Arguments of the scoring of lines 239-261 (the non-failing path).
ScoringInputs ==
  [fn : {"FeedbackScores"}, semantic : 0..MaxScore, skill : 0..MaxScore,
   experience : ExperienceScores]

\* Replies of the model to one call of generateFeedback: every step may fail.
ScoreReplies ==
  [resumeSkills : ResumeSkillReplies, jobSkills : JobSkillReplies \cup {Failed},
   experience : ExperienceReplies, insights : InsightReplies]

\* Arguments of generateFeedback: the semantic score and the model's replies.
GenerateInputs == [fn : {"generateFeedback"}, semantic : 0..MaxScore, ai : ScoreReplies]

ScoreInit ==
  /\ Idle
  /\ input \in ScoringInputs \cup GenerateInputs
  /\ output = NoOutput

\* What a call returned.
Returned(scores, fellBack) == [returned |-> TRUE, scores |-> scores, fellBack |-> fellBack]

\* Steps 4 and 5 of generateFeedback on given component scores.
ApplyFeedbackScores ==
  /\ input.fn = "FeedbackScores"
  /\ ~output.returned
  /\ output' = Returned(FeedbackScores(input.semantic, input.skill,
                                       input.experience, SomeInsights), FALSE)
  /\ UNCHANGED <<jobs, tailors, feedback, cache, now, req, fb, input>>

\* generateFeedback on an empty cache.
ApplyGenerateFeedback ==
  /\ input.fn = "generateFeedback"
  /\ ~output.returned
  /\ \E res \in {generateFeedback(cache, now, ResumeText, Description(1),
                                   input.semantic, input.ai)} :
       /\ output' = Returned(res.scores, res.fellBack)
       /\ cache' = res.cache
  /\ UNCHANGED <<jobs, tailors, feedback, now, req, fb, input>>

ScoreNext ==
  \/ ApplyFeedbackScores
  \/ ApplyGenerateFeedback

ScoreSpec == ScoreInit /\ [][ScoreNext]_vars

\* round(n / 10) for a natural number n, a tie going up.
RoundTenths(n) == (n + 5) \div 10

\* C6: on the non-failing path the selection probability is
\* min(100, max(0, round(0.6 semantic + 0.3 skill + 0.1 experience))) of the
\* component scores returned with it, and lies in 0..100.
SelectionProbabilityIsWeightedSum ==
  (output.returned /\ ~output.fellBack) =>
    /\ output.scores.selection_probability =
         MinOf(100, MaxOf(0, RoundTenths(6 * output.scores.semantic_similarity_score
                                         + 3 * output.scores.skill_coverage_score
                                         + output.scores.experience_alignment_score)))
    /\ output.scores.selection_probability \in 0..100

\* Some reply of the model is a failure.
SomeStepFails(ai) ==
  ~(ai.resumeSkills.ok /\ ai.jobSkills.ok /\ ai.experience.ok /\ ai.insights.ok)

\* C7: when a step of generateFeedback fails, generateFeedback returns
\* round(0.8 semantic) as the selection probability, the semantic score it
\* was given, 50 for skill coverage and for experience alignment, and empty
\* strengths, gaps and recommendations.
FailureGivesFallbackScores ==
  (input.fn = "generateFeedback" /\ output.returned /\ SomeStepFails(input.ai)) =>
    /\ output.fellBack
    /\ output.scores =
         [selection_probability |-> RoundTenths(8 * input.semantic),
          semantic_similarity_score |-> input.semantic,
          skill_coverage_score |-> 50,
          experience_alignment_score |-> 50,
          insights |-> [strengths |-> <<>>, gaps |-> <<>>, recommendations |-> <<>>]]

\* Only the insight call failed, for a semantic score of 77.
InsightCallFailed ==
  /\ input.fn = "generateFeedback"
  /\ input.semantic = 77
  /\ input.ai.resumeSkills.ok /\ input.ai.experience.ok /\ ~input.ai.insights.ok
  /\ output.returned
  /\ output.scores.selection_probability = 62

(***************************************************************************)
(* MemoryCache on its own: set, get and the passing of time on a cache of   *)
(* CacheCapacity entries.  input keeps, for every key, the arguments of its *)
(* latest set while the entry has not been evicted, and the keys in the     *)
(* order in which their present entries were inserted; output is the last   *)
(* call and what it returned.                                               *)
(***************************************************************************)
SmallDefaultTTL == 2
SmallConfig == [defaultTTL |-> SmallDefaultTTL, maxSize |-> CacheCapacity]
CacheKeys == 1..(CacheCapacity + 1)
CacheValues == {"v", "w"}
\* The ttl argument: omitted, 0, or one clock unit.
CacheTtls == {Null, 0, 1}

NoSet == [set |-> FALSE]
KeysOf(c) == {c[i].key : i \in 1..Len(c)}

\* seq without the elements of gone.
RECURSIVE Without(_, _)
Without(seq, gone) ==
  IF seq = <<>> THEN <<>>
  ELSE IF Head(seq) \in gone THEN Without(Tail(seq), gone)
       ELSE <<Head(seq)>> \o Without(Tail(seq), gone)

CacheInit ==
  /\ Idle
  /\ input = [sets |-> [k \in CacheKeys |-> NoSet], order |-> <<>>]
  /\ output = NoOutput

\* cache.set(k, v, ttl)
CacheSetCall(k, v, ttl) ==
  /\ cache' = CacheSet(cache, SmallConfig, k, v, ttl, now)
  /\ LET gone == KeysOf(cache) \ KeysOf(cache')
         kept == Without(input.order, gone)
     IN input' =
          [sets |-> [j \in CacheKeys |->
                      IF j = k THEN [set |-> TRUE, data |-> v, ttl |-> ttl, at |-> now]
                      ELSE IF j \in gone THEN NoSet
                      ELSE input.sets[j]],
           order |-> IF k \in KeysOf(cache) \ gone THEN kept ELSE Append(kept, k)]
  /\ output' = [returned |-> TRUE, op |-> "set", key |-> k, at |-> now,
                full |-> Len(cache) >= CacheCapacity,
                new |-> k \notin KeysOf(cache),
                oldest |-> IF input.order = <<>> THEN Null ELSE Head(input.order),
                before |-> KeysOf(cache)]
  /\ UNCHANGED <<jobs, tailors, feedback, now, req, fb>>

\* cache.get(k)
CacheGetCall(k) ==
  /\ cache' = CacheAfterGet(cache, k, now)
  /\ input' = [input EXCEPT !.order = Without(@, KeysOf(cache) \ KeysOf(cache'))]
  /\ output' = [returned |-> TRUE, op |-> "get", key |-> k, at |-> now,
                hit |-> CacheGetHit(cache, k, now),
                data |-> IF CacheGetHit(cache, k, now)
                         THEN CacheGetData(cache, k) ELSE Null,
                found |-> k \in KeysOf(cache)]
  /\ UNCHANGED <<jobs, tailors, feedback, now, req, fb>>

\* getCachedOrFetch(cache, key, fetchFn, ttl) on a cache whose get or set may
\* throw (fault is "none", "read" or "write").  The function has no try: an
\* exception of cache.get leaves before fetchFn is called, an exception of
\* cache.set leaves after it, and either rejects the returned promise.
\* ran: fetchFn was called; ok: the promise resolved, with data.
GetCachedOrFetchFaulty(fault, c, key, reply, ttl, t) ==
  IF fault = "read"
  THEN [ok |-> FALSE, data |-> Null, cache |-> c, ran |-> FALSE]
  ELSE IF CacheGetHit(c, key, t)
  THEN [ok |-> TRUE, data |-> CacheGetData(c, key), cache |-> c, ran |-> FALSE]
  ELSE IF ~reply.ok
  THEN [ok |-> FALSE, data |-> Null, cache |-> CacheAfterGet(c, key, t), ran |-> TRUE]
  ELSE IF fault = "write"
  THEN [ok |-> FALSE, data |-> Null, cache |-> CacheAfterGet(c, key, t), ran |-> TRUE]
  ELSE [ok |-> TRUE, data |-> reply.val,
        cache |-> CacheSet(CacheAfterGet(c, key, t), SmallConfig, key, reply.val, ttl, t),
        ran |-> TRUE]

CacheFaults == {"none", "read", "write"}
FetchReplies == {Failed} \cup {Reply(v) : v \in CacheValues}

\* getCachedOrFetch(cache, k, fetchFn, 1) where fetchFn settles as reply.
CacheFetchCall(k, reply, fault) ==
  \E res \in {GetCachedOrFetchFaulty(fault, cache, k, reply, 1, now)} :
    /\ cache' = res.cache
    /\ LET gone == KeysOf(cache) \ KeysOf(cache')
           kept == Without(input.order, gone)
           stored == res.ok /\ res.ran
       IN input' =
            [sets |-> [j \in CacheKeys |->
                        IF j = k /\ stored
                        THEN [set |-> TRUE, data |-> res.data, ttl |-> 1, at |-> now]
                        ELSE IF j \in gone THEN NoSet
                        ELSE input.sets[j]],
             order |-> IF k \in KeysOf(cache') \ KeysOf(cache)
                       THEN Append(kept, k) ELSE kept]
    /\ output' = [returned |-> TRUE, op |-> "fetch", key |-> k, at |-> now,
                  fault |-> fault, reply |-> reply,
                  cached |-> CacheGetHit(cache, k, now),
                  ok |-> res.ok, data |-> res.data, ran |-> res.ran]
    /\ UNCHANGED <<jobs, tailors, feedback, now, req, fb>>

\* Date.now() advances.
Tick ==
  /\ now < MaxTime
  /\ now' = now + 1
  /\ UNCHANGED <<jobs, tailors, feedback, cache, req, fb, input, output>>

CacheNext ==
  \/ \E k \in CacheKeys, v \in CacheValues, ttl \in CacheTtls : CacheSetCall(k, v, ttl)
  \/ \E k \in CacheKeys : CacheGetCall(k)
  \/ Tick

CacheSpec == CacheInit /\ [][CacheNext]_vars

\* getCachedOrFetch calls on the same cache as time passes.
FetchNext ==
  \/ \E k \in CacheKeys, reply \in FetchReplies, fault \in CacheFaults :
       CacheFetchCall(k, reply, fault)
  \/ Tick

FetchSpec == CacheInit /\ [][FetchNext]_vars

(***************************************************************************)
(* The cache-wrapped language-model operations on their own: calls of      *)
(* generateTailoredContent and generateFeedbackInsights for one resume and *)
(* one job with varying intents and scores.  input keeps the previous call *)
(* and, for every operation, which arguments computed the entry cached     *)
(* under a key; output is the last call and what it returned.              *)
(***************************************************************************)
OtherIntent == [roles |-> <<"designer">>, work_type |-> "onsite"]
Intents == {UserIntent, OtherIntent}

LowScores == [semantic |-> 70, skills |-> 50, experience |-> 50]
HighScores == [semantic |-> 70, skills |-> 100, experience |-> 80]
ScoreRecords == {LowScores, HighScores}

\* What the chat completion gives: the call throws, or message.content is
\* null, a JSON object with some of the three documents, or text that is not
\* JSON (a completion cut at max_tokens).
ContentFields == {"tailoredResume", "coverLetter", "portfolio"}
ApiError == [kind |-> "error"]
NullContent == [kind |-> "null"]
NotJson == [kind |-> "text"]
JsonWith(fields) == [kind |-> "json", fields |-> fields]
Completions ==
  {ApiError, NullContent, NotJson, JsonWith(ContentFields),
   JsonWith({"coverLetter"}), JsonWith({})}

\* A document is a string: <<>> is ''.
EmptyString == <<>>
DocumentOf(completion, field) ==
  IF completion.kind = "json" /\ field \in completion.fields
  THEN <<field>> ELSE EmptyString

\* JSON.parse(response.choices[0].message.content || '{}') and the three
\* `content.x || ''` defaults; Failed when the call or JSON.parse throws.
ParseContent(completion) ==
  IF completion.kind \in {"error", "text"}
  THEN Failed
  ELSE Reply([f \in ContentFields |-> DocumentOf(completion, f)])

\* generateTailoredContent run to completion at time t.
generateTailoredContent(c, t, resumeText, jobDescription, userIntent, completion) ==
  Only({GetCachedOrFetch(c, ContentKey(resumeText, jobDescription, userIntent),
                         parsed, parsed.val, HourTTL, t) :
        parsed \in {ParseContent(completion)}})

\* generateFeedbackInsights run to completion at time t.
generateFeedbackInsights(c, t, resumeText, jobDescription, scores, reply) ==
  GetCachedOrFetch(c, InsightsKey(resumeText, jobDescription, scores),
                   reply, InsightsOf(reply), HourTTL, t)

\* What the completion of the experience analysis gives: as above, where a
\* JSON object carries a numeric score or none (Null).
JsonScore(score) == [kind |-> "score", score |-> score]
ScoreCompletions ==
  {ApiError, NullContent, NotJson} \cup
  {JsonScore(score) : score \in {Null, -5, 0, 1, 50, 100, 150}}

\* JSON.parse(response.choices[0].message.content || '{}') of the experience
\* analysis: Failed when the call or JSON.parse throws, else result.score.
ParseScore(completion) ==
  IF completion.kind \in {"error", "text"} THEN Failed
  ELSE IF completion.kind = "null" THEN Reply(Null)
  ELSE Reply(completion.score)

\* calculateExperienceAlignment run to completion at time t.
calculateExperienceAlignment(c, t, resumeText, jobDescription, completion) ==
  Only({GetCachedOrFetch(c, ExperienceKey(resumeText, jobDescription),
                         parsed, ExperienceOf(parsed), HourTTL, t) :
        parsed \in {ParseScore(completion)}})

NoCall ==
  [fn |-> "none",
   source |-> [op \in {"content", "insights", "experience"} |-> {}]]

AiInit ==
  /\ Idle
  /\ input = NoCall
  /\ output = NoOutput

\* The entries' origins after a call: a fetch that stored replaces the
\* origin of its key.
SourcesAfter(op, key, args, res) ==
  IF res.ok /\ res.fetched
  THEN [input.source EXCEPT ![op] =
          {p \in @ : p.key # key} \cup {[key |-> key, args |-> args]}]
  ELSE input.source

AiCall(op, key, args, given, res) ==
  /\ cache' = res.cache
  /\ input' = [fn |-> IF output.returned THEN output.op ELSE "none",
               args |-> IF output.returned THEN output.args ELSE Null,
               key |-> IF output.returned THEN output.key ELSE Null,
               source |-> SourcesAfter(op, key, args, res)]
  /\ output' = [returned |-> TRUE, op |-> op, args |-> args, key |-> key,
                given |-> given, ok |-> res.ok, data |-> res.data,
                fetched |-> res.fetched]
  /\ UNCHANGED <<jobs, tailors, feedback, now, req, fb>>

ContentCall(intent, completion) ==
  \E res \in {generateTailoredContent(cache, now, ResumeText, Description(1),
                                      intent, completion)} :
    AiCall("content", ContentKey(ResumeText, Description(1), intent),
           intent, completion, res)

InsightsCall(scores, reply) ==
  \E res \in {generateFeedbackInsights(cache, now, ResumeText, Description(1),
                                       scores, reply)} :
    AiCall("insights", InsightsKey(ResumeText, Description(1), scores),
           scores, reply, res)

ExperienceCall(completion) ==
  \E res \in {calculateExperienceAlignment(cache, now, ResumeText, Description(1),
                                           completion)} :
    AiCall("experience", ExperienceKey(ResumeText, Description(1)),
           <<ResumeText, Description(1)>>, completion, res)

AiNext ==
  \/ \E intent \in Intents, completion \in Completions :
       ContentCall(intent, completion)
  \/ \E scores \in ScoreRecords, reply \in InsightReplies :
       InsightsCall(scores, reply)
  \/ Tick

AiSpec == AiInit /\ [][AiNext]_vars

\* Calls of calculateExperienceAlignment as time passes.
ExperienceNext ==
  \/ \E completion \in ScoreCompletions : ExperienceCall(completion)
  \/ Tick

ExperienceSpec == AiInit /\ [][ExperienceNext]_vars

(***************************************************************************)
(* calculateSkillCoverage on its own: a job's skill list is scored against *)
(* a resume skill list that grows by one skill at a time.  input is the    *)
(* two lists; output is the coverage of the last call, the coverage before *)
(* the last skill was added, and that skill.                               *)
(***************************************************************************)
MaxResumeSkills == 2
MaxJobSkills == 2
LongJobSkills == 201

SkillGoLower == <<"g", "o">>
SkillJavascript == <<"j", "a", "v", "a", "s", "c", "r", "i", "p", "t">>
\* One letter away from SkillJavascript, and three letters away.
SkillJavascrips == <<"j", "a", "v", "a", "s", "c", "r", "i", "p", "s">>
SkillJavascoops == <<"j", "a", "v", "a", "s", "c", "o", "o", "p", "s">>
Skills ==
  {SkillGo, SkillGoLower, SkillRust, SkillJavascript, SkillJavascrips,
   SkillJavascoops}

ListsUpTo(n) == UNION {[1..k -> Skills] : k \in 0..n}
\* A long list: SkillGo followed by repetitions of SkillRust.
LongJobList == [i \in 1..LongJobSkills |-> IF i = 1 THEN SkillGo ELSE SkillRust]
JobLists == ListsUpTo(MaxJobSkills) \cup {LongJobList}

CoverageInit ==
  /\ Idle
  /\ input \in {[resumeSkills |-> <<>>, jobSkills |-> js] : js \in JobLists}
  /\ output = NoOutput

CoverageCall ==
  /\ ~output.returned
  /\ output' = [returned |-> TRUE,
                coverage |-> calculateSkillCoverage(input.resumeSkills,
                                                    input.jobSkills),
                added |-> FALSE, before |-> Null, skill |-> <<>>]
  /\ UNCHANGED <<jobs, tailors, feedback, cache, now, req, fb, input>>

\* The resume gains the skill s and the job is scored again.
AddResumeSkill(s) ==
  /\ output.returned
  /\ Len(input.resumeSkills) < MaxResumeSkills
  /\ input' = [input EXCEPT !.resumeSkills = Append(@, s)]
  /\ output' = [returned |-> TRUE,
                coverage |-> calculateSkillCoverage(input'.resumeSkills,
                                                    input.jobSkills),
                added |-> TRUE, before |-> output.coverage, skill |-> s]
  /\ UNCHANGED <<jobs, tailors, feedback, cache, now, req, fb>>

CoverageNext ==
  \/ CoverageCall
  \/ \E s \in Skills : AddResumeSkill(s)

CoverageSpec == CoverageInit /\ [][CoverageNext]_vars

\* The ttl a set asked for: the default when the argument is omitted.
RequestedTtl(ttl) == IF ttl = Null THEN SmallDefaultTTL ELSE ttl

\* C11: a get of a key whose latest set has not been evicted returns the
\* value of that set when it comes at the instant of the set, returns null
\* when more than the ttl of that set has elapsed, never returns another
\* value, and leaves no entry of the key behind when it returns null.
GetAgreesWithLatestSet ==
  (output.returned /\ output.op = "get" /\ input.sets[output.key].set) =>
    LET last == input.sets[output.key]
    IN /\ output.at = last.at => (output.hit /\ output.data = last.data)
       /\ output.at - last.at > RequestedTtl(last.ttl) => ~output.hit
       /\ output.hit => output.data = last.data
       /\ ~output.hit => output.key \notin KeysOf(cache)

\* C12: a set of a new key into a full cache removes the earliest-inserted
\* key that was present and no other, so that capacity + 1 distinct keys
\* set into the empty cache leave all of them but the first.
FullCacheEvictsEarliestInserted ==
  (output.returned /\ output.op = "set" /\ output.new) =>
    IF output.full
    THEN KeysOf(cache) = (output.before \ {output.oldest}) \cup {output.key}
    ELSE KeysOf(cache) = output.before \cup {output.key}

\* Keys 1, 2, ..., CacheCapacity + 1 were set in turn and key 1 was evicted.
FirstInsertedWasEvicted ==
  /\ output.returned /\ output.op = "set" /\ output.new /\ output.full
  /\ output.key = CacheCapacity + 1
  /\ output.oldest = 1
  /\ output.before = 1..CacheCapacity
  /\ KeysOf(cache) = 2..(CacheCapacity + 1)
  /\ input.order = [i \in 1..CacheCapacity |-> i + 1]

KeysSeparateSemanticInputs ==
  /\ (output.returned /\ input.fn # "none" /\ input.fn = output.op
        /\ input.args # output.args) => input.key # output.key
  /\ (output.returned /\ output.ok /\ ~output.fetched) =>
       [key |-> output.key, args |-> output.args] \in input.source[output.op]

\* C15: calculateSkillCoverage returns 100 for the empty job list whatever
\* the resume list is, and for a non-empty job list an integer from 0 to 100,
\* the empty resume list included.
CoverageIsAPercentage ==
  output.returned =>
    /\ input.jobSkills = <<>> => output.coverage = 100
    /\ output.coverage \in 0..100

\* An empty job list was scored against a non-empty resume list.
EmptyJobListScoredFull ==
  /\ output.returned
  /\ input.jobSkills = <<>> /\ input.resumeSkills # <<>>
  /\ output.coverage = 100

\* One resume skill is scored against one job skill, and neither contains
\* the other once lower-cased, so that only the fuzzy match can count.
OnePairWithoutContainment ==
  /\ output.returned
  /\ Len(input.resumeSkills) = 1 /\ Len(input.jobSkills) = 1
  /\ ~Includes(ToLowerCase(input.resumeSkills[1]), ToLowerCase(input.jobSkills[1]))
  /\ ~Includes(ToLowerCase(input.jobSkills[1]), ToLowerCase(input.resumeSkills[1]))

PairLength == MaxOf(Len(input.resumeSkills[1]), Len(input.jobSkills[1]))
PairDistance ==
  levenshteinDistance(ToLowerCase(input.jobSkills[1]),
                      ToLowerCase(input.resumeSkills[1]))

\* C16 as stated: a job skill counts as a partial match exactly when its
\* normalized Levenshtein similarity (max_len - distance) / max_len to a
\* resume skill is at least 0.7, a pair at exactly 0.7 included.
PartialMatchAtSeventyPercent ==
  OnePairWithoutContainment =>
    (output.coverage = 100 <=> 10 * (PairLength - PairDistance) >= 7 * PairLength)

\* C16: a job skill counts as a partial match exactly when its normalized
\* Levenshtein similarity to a resume skill is greater than 0.7; a pair at
\* exactly 0.7 is not matched.
PartialMatchAboveSeventyPercent ==
  OnePairWithoutContainment =>
    /\ output.coverage = 100 <=> 10 * (PairLength - PairDistance) > 7 * PairLength
    /\ output.coverage \in {0, 100}

\* Two skills of length 10 at distance 3 were scored: nothing is covered.
PairAtExactlySeventyPercent ==
  /\ OnePairWithoutContainment
  /\ PairLength = 10 /\ PairDistance = 3
  /\ output.coverage = 0

\* The resume list before the last skill was added.
ResumeBefore == SubSeq(input.resumeSkills, 1, Len(input.resumeSkills) - 1)

\* The added skill equals a job skill that no skill of the resume matched
\* before, neither by containment nor by similarity.
AddedAnUnmatchedJobSkill ==
  /\ output.returned /\ output.added
  /\ \E j \in 1..Len(input.jobSkills) :
       /\ input.jobSkills[j] = output.skill
       /\ \A r \in 1..Len(ResumeBefore) :
            LET jobSkill == ToLowerCase(input.jobSkills[j])
                resumeSkill == ToLowerCase(ResumeBefore[r])
            IN /\ ~Includes(resumeSkill, jobSkill)
               /\ ~Includes(jobSkill, resumeSkill)
               /\ ~SimilarityAboveThreshold(jobSkill, resumeSkill)

\* C17 as stated: adding a skill to the resume list never lowers the
\* coverage, and raises it when the skill equals a job skill that no skill
\* of the resume matched before.
CoverageStrictlyMonotonic ==
  /\ (output.returned /\ output.added) => output.coverage >= output.before
  /\ AddedAnUnmatchedJobSkill => output.coverage > output.before

\* C17: adding a skill to the resume list never lowers the coverage, and
\* raises it when the skill equals a job skill that no skill of the resume
\* matched before and the job list has at most 100 skills (one more match
\* among more skills than that can round to the same percentage).
CoverageMonotonic ==
  /\ (output.returned /\ output.added) => output.coverage >= output.before
  /\ (AddedAnUnmatchedJobSkill /\ Len(input.jobSkills) <= 100) =>
       output.coverage > output.before

\* An unmatched job skill of a short job list was added to a non-empty
\* resume and the coverage rose.
UnmatchedSkillRaisedCoverage ==
  /\ AddedAnUnmatchedJobSkill
  /\ ResumeBefore # <<>>
  /\ Len(input.jobSkills) = MaxJobSkills
  /\ output.coverage > output.before

\* Every job skill has an exact or a partial match among the resume skills.
EveryJobSkillMatched ==
  \A j \in 1..Len(input.jobSkills) :
    \E r \in 1..Len(input.resumeSkills) :
      LET jobSkill == ToLowerCase(input.jobSkills[j])
          resumeSkill == ToLowerCase(input.resumeSkills[r])
      IN \/ Includes(resumeSkill, jobSkill)
         \/ Includes(jobSkill, resumeSkill)
         \/ SimilarityAboveThreshold(jobSkill, resumeSkill)

\* C18: when the job list is not empty and each of its skills has an exact
\* or partial match among the resume skills, the coverage is 100, whatever
\* repetitions or letter-case variants the job list contains.
FullyMatchedJobListScoresFull ==
  (output.returned /\ input.jobSkills # <<>> /\ EveryJobSkillMatched) =>
    output.coverage = 100

\* C19: calculateExperienceAlignment returns min(100, max(0, s)) for every
\* numeric score s of the reply, 0 for s = 0, and 50 when the reply carries no
\* parseable score: a reply without a score or one that is not JSON yields 50
\* and no exception.
ExperienceAlignmentClampsTheScore ==
  (output.returned /\ output.op = "experience" /\ output.fetched
     /\ output.given.kind # "error") =>
    /\ output.ok
    /\ output.data =
         IF output.given.kind = "score" /\ output.given.score # Null
         THEN MinOf(100, MaxOf(0, output.given.score))
         ELSE 50

\* C20: generateTailoredContent does not throw because of the shape of the
\* completion: when the call itself succeeds, a JSON object that lacks some
\* of tailoredResume, coverLetter and portfolio, and a content that is not
\* JSON at all, give a result whose affected documents are empty strings.
ContentToleratesAnyCompletion ==
  (output.returned /\ output.op = "content" /\ output.fetched
     /\ output.given.kind # "error") =>
    /\ output.ok
    /\ \A field \in ContentFields :
         output.data[field] =
           IF output.given.kind = "json" /\ field \in output.given.fields
           THEN <<field>> ELSE EmptyString

\* The event loop runs every task that can run: the asynchronous task of a
\* request is resumed when the call it awaits settles.
FairSpec == Spec /\ \A r \in ReqIds : WF_vars(FeedbackStep(AsyncOf(r)))

(***************************************************************************)
(* Properties of the orchestrator and of the feedback attempts.            *)
(***************************************************************************)
FeedbackCount(t) == Cardinality(FeedbackRowsOf(feedback, t))

\* C1: in every reachable state, whatever the interleaving of the attempts
\* (the asynchronous task and the POST /api/feedback/generate requests), a
\* tailor has at most one feedback row.
AtMostOneFeedbackPerTailor ==
  \A t \in 1..Len(tailors) : FeedbackCount(t) <= 1

\* The attempts for tailor t whose existence check has returned.
Checked(t) == {a \in Attempts : fb[a].tailor = t /\ fb[a].seen # Null}

\* C2: when the attempts for a tailor run one after the other (each check
\* returns while no other attempt is between its check and its insert), the
\* tailor has at most one feedback row, exactly one once an attempt has
\* inserted; and an attempt whose check found the row calls no AI function
\* and inserts nothing.
SequentialFeedbackIsIdempotent ==
  \A t \in 1..Len(tailors) :
    /\ \A a \in Checked(t) :
         fb[a].seen = 1 =>
           /\ fb[a].pc = "done"
           /\ ~fb[a].generated
           /\ ~fb[a].inserted
           /\ fb[a].scores = NoScores
    /\ (\A a \in Checked(t) : fb[a].alone) =>
         /\ FeedbackCount(t) <= 1
         /\ (\E a \in Checked(t) : fb[a].inserted) => FeedbackCount(t) = 1

\* Two attempts for one tailor, the second started after the first inserted.
SecondInvocationFoundTheRow ==
  \E a, b \in Attempts :
    /\ a # b
    /\ fb[a].tailor = fb[b].tailor
    /\ fb[a].pc = "done" /\ fb[a].inserted /\ fb[a].alone
    /\ fb[b].pc = "done" /\ fb[b].seen = 1 /\ fb[b].alone
    /\ FeedbackCount(fb[a].tailor) = 1

\* C3: once a request that computed a fit score below 70 has answered
\* not_a_good_fit, the stored status of its job is not_a_good_fit.
BelowThresholdStoresNotAGoodFit ==
  \A r \in ReqIds :
    (req[r].pc = "done" /\ req[r].response.status = "not_a_good_fit") =>
      jobs[req[r].job].status = "not_a_good_fit"

\* C4: a request that computed a fit score below 70 never calls the content
\* generator, creates no tailor and starts no feedback generation; and no
\* tailor row has a fit score below 70.
BelowThresholdStops ==
  /\ \A r \in ReqIds :
       (req[r].fit # Null /\ req[r].fit < 70) =>
         /\ ~req[r].calledContent
         /\ req[r].tailorId = Null
         /\ fb[AsyncOf(r)] = NoAttempt
         /\ req[r].pc = "done" => req[r].response.tailorId = Null
  /\ \A t \in 1..Len(tailors) : tailors[t].fit_score >= 70

\* A request that scored 69 has answered.
ScoredSixtyNine ==
  \E r \in ReqIds :
    req[r].pc = "done" /\ req[r].fit = 69 /\ req[r].response.status = "not_a_good_fit"

\* The tailor rows are exactly the rows the requests created, one each.
OneTailorEach ==
  /\ Len(tailors) = Cardinality({q \in ReqIds : req[q].tailorId # Null})
  /\ \A q, r \in ReqIds :
       (q # r /\ req[q].tailorId # Null) => req[q].tailorId # req[r].tailorId

FeedbackIsDecoupled ==
  [][/\ \A r \in ReqIds :
          (req[r].response.status # "processed"
             /\ req'[r].response.status = "processed") =>
            /\ req'[r].response.http = 200
            /\ fb'[AsyncOf(r)].pc = "check"
            /\ ~fb'[AsyncOf(r)].generated
     /\ (fb' # fb /\ feedback' # feedback) => UNCHANGED <<jobs, tailors, req>>
     /\ \A a \in Attempts :
          (fb[a].pc \in {"check", "lookup", "generate", "insert"}
             /\ fb'[a] # fb[a]) =>
            UNCHANGED <<jobs, tailors, req>>]_vars

\* The asynchronous task of a processed request ended in a database failure.
AsyncTaskFailedAfterResponse ==
  \E r \in ReqIds :
    /\ req[r].response = ProcessedResponse(req[r])
    /\ fb[AsyncOf(r)].pc = "done"
    /\ fb[AsyncOf(r)].dbFault
    /\ jobs[req[r].job].status = "processed"

\* C10: the step in which the embedding call fails answers with an error,
\* stores nothing in the cache, creates no tailor and no feedback row and
\* leaves the job rows as they are; the failed request has no tailor, has
\* started no feedback task and does nothing further.
EmbeddingFailureFailsTheOperation ==
  [][\A r \in ReqIds :
       /\ (req[r].failedAt # "embedding" /\ req'[r].failedAt = "embedding") =>
            /\ req[r].pc = "embedding"
            /\ req'[r].response.http = 500
            /\ req'[r].fit = Null
            /\ req'[r].tailorId = Null
            /\ fb'[AsyncOf(r)] = NoAttempt
            /\ UNCHANGED <<cache, jobs, tailors, feedback>>
       /\ req[r].failedAt = "embedding" =>
            /\ req'[r] = req[r]
            /\ fb'[AsyncOf(r)] = NoAttempt]_vars

\* A request failed at the embedding call while its key is not cached.
EmbeddingFailed ==
  \E r \in ReqIds :
    /\ req[r].pc = "done"
    /\ req[r].failedAt = "embedding"
    /\ CacheIndex(cache, SimilarityKey(ResumeText, Description(req[r].job))) = 0

\* C8: once a request has answered processed, a feedback row for its tailor
\* eventually exists, whatever the AI calls do, unless the database fails
\* the task's insert.
FeedbackEventuallyExists ==
  \A r \in ReqIds :
    (req[r].response.status = "processed") ~>
      (FeedbackRowsOf(feedback, req[r].tailorId) # {} \/ fb[AsyncOf(r)].dbFault)

\* The task of a processed request inserted fallback scores.
FallbackRowInserted ==
  \E r \in ReqIds :
    /\ req[r].response.status = "processed"
    /\ fb[AsyncOf(r)].inserted
    /\ fb[AsyncOf(r)].fellBack
    /\ FeedbackRowsOf(feedback, req[r].tailorId) # {}

(***************************************************************************)
(* Properties of repeated requests.                                        *)
(***************************************************************************)
\* C21: a feedback attempt whose existence check is made while its tailor
\* has a feedback row is a no-op that reports success on both entry points:
\* it calls nothing, inserts nothing, and the route does not answer with an
\* error status.
DuplicateFeedbackIsANoOpSuccess ==
  \A a \in Attempts :
    (fb[a].pc = "done" /\ fb[a].seen >= 1) =>
      /\ ~fb[a].generated
      /\ ~fb[a].inserted
      /\ fb[a].http \in {0, 200}

\* C22: a job is processed once: whatever processing requests arrive, at
\* most one tailor row exists per job, and the fit_score of a job whose
\* status is processed equals the fit_score of its tailor.
AtMostOneTailorPerJob ==
  \A j \in JobIds :
    /\ Cardinality({i \in 1..Len(tailors) : tailors[i].job_id = j}) <= 1
    /\ jobs[j].status = "processed" =>
         \A i \in 1..Len(tailors) :
           tailors[i].job_id = j => tailors[i].fit_score = jobs[j].fit_score

\* The requests that inserted a tailor.
Inserters == {r \in ReqIds : req[r].tailorId # Null}

\* C23: a job whose status is processed has a tailor row, inserted before
\* the status was written; a request whose content generation or tailor
\* insert failed has inserted no tailor, has started no feedback generation
\* and has not marked its job processed (the job is processed only if
\* another request did so after inserting its tailor).
ProcessedJobHasATailor ==
  /\ \A j \in JobIds :
       jobs[j].status = "processed" =>
         \E r \in Inserters : req[r].job = j /\ tailors[req[r].tailorId].job_id = j
  /\ Len(tailors) = Cardinality(Inserters)
  /\ \A r \in ReqIds :
       req[r].failedAt \in {"content", "insert"} =>
         /\ r \notin Inserters
         /\ fb[AsyncOf(r)] = NoAttempt
         /\ jobs[req[r].job].status = "processed" =>
              \E other \in Inserters \ {r} :
                req[other].job = req[r].job /\ req[other].pc = "done"

\* One request failed at the tailor insert while no request had processed
\* its job: the job is pending and has no tailor.
FailedInsertLeftJobPending ==
  \E r \in ReqIds :
    /\ req[r].failedAt = "insert"
    /\ jobs[req[r].job].status = "pending"
    /\ tailors = <<>>
    /\ \A other \in ReqIds \ {r} : req[other].failedAt = "content"

(***************************************************************************)
(* Properties of MemoryCache.set.                                          *)
(***************************************************************************)
\* C26: set stores the entry with the ttl the caller passed, 0 included, and
\* with the default only when the ttl is omitted; an entry set with ttl 0 is
\* not found by a get at any later time.
SetStoresTheTtlPassed ==
  /\ (output.returned /\ output.op = "set") =>
       cache[CacheIndex(cache, output.key)].ttl =
         RequestedTtl(input.sets[output.key].ttl)
  /\ (output.returned /\ output.op = "get" /\ input.sets[output.key].set
        /\ input.sets[output.key].ttl = 0
        /\ output.at > input.sets[output.key].at) => ~output.hit

\* C27: a set of a key that is already present replaces the entry of that
\* key and leaves every other entry in the cache, also when the cache is
\* full.
SetOfPresentKeyKeepsTheOthers ==
  (output.returned /\ output.op = "set" /\ ~output.new) =>
    KeysOf(cache) = output.before

(***************************************************************************)
(* Eviction order: sets and gets on a cache of WideCapacity entries, with  *)
(* the clock standing still.  input keeps the keys present, ordered by     *)
(* their most recent set; output is the last call, the first key of the    *)
(* map before it and the key it evicted.                                   *)
(***************************************************************************)
WideCapacity == 3
WideConfig == [defaultTTL |-> SmallDefaultTTL, maxSize |-> WideCapacity]
WideKeys == 1..(WideCapacity + 1)

KeyOrder(c) == [i \in 1..Len(c) |-> c[i].key]

EvictionInit ==
  /\ Idle
  /\ input = [recent |-> <<>>]
  /\ output = NoOutput

\* cache.set(k, v)
WideSetCall(k, v) ==
  /\ cache' = CacheSet(cache, WideConfig, k, v, Null, now)
  /\ input' = [recent |->
                 Append(Without(input.recent,
                                (KeysOf(cache) \ KeysOf(cache')) \cup {k}), k)]
  /\ output' = [returned |-> TRUE, op |-> "set", key |-> k,
                full |-> Len(cache) >= WideCapacity,
                new |-> k \notin KeysOf(cache),
                evicted |-> KeysOf(cache) \ KeysOf(cache'),
                stalest |-> IF input.recent = <<>> THEN Null ELSE Head(input.recent),
                order |-> KeyOrder(cache)]
  /\ UNCHANGED <<jobs, tailors, feedback, now, req, fb>>

\* cache.get(k)
WideGetCall(k) ==
  /\ cache' = CacheAfterGet(cache, k, now)
  /\ input' = [recent |-> Without(input.recent, KeysOf(cache) \ KeysOf(cache'))]
  /\ output' = [returned |-> TRUE, op |-> "get", key |-> k,
                hit |-> CacheGetHit(cache, k, now),
                order |-> KeyOrder(cache)]
  /\ UNCHANGED <<jobs, tailors, feedback, now, req, fb>>

EvictionNext ==
  \/ \E k \in WideKeys, v \in CacheValues : WideSetCall(k, v)
  \/ \E k \in WideKeys : WideGetCall(k)

EvictionSpec == EvictionInit /\ [][EvictionNext]_vars

\* C24: eviction follows insertion, not access: a get leaves the order of
\* the entries as it was, and a set of a new key into a full cache evicts
\* exactly the key whose most recent set is the oldest among the keys
\* present.
EvictsTheLeastRecentlySet ==
  /\ (output.returned /\ output.op = "get") => KeyOrder(cache) = output.order
  /\ (output.returned /\ output.op = "set" /\ output.new /\ output.full) =>
       output.evicted = {output.stalest}

(***************************************************************************)
(* Every operation of MemoryCache, the sweep and interleaved calls of      *)
(* getCachedOrFetch on one cache of CacheCapacity entries.  input keeps    *)
(* the callers of getCachedOrFetch: a caller is between its miss and its   *)
(* set while its producer is pending, since the time `at`.  output is the  *)
(* last call.                                                              *)
(***************************************************************************)
MaxCallers == 2
Callers == 1..MaxCallers
FetchTtl == 1

IdleCaller == [pc |-> "idle", key |-> Null, at |-> Null]
OpsInit ==
  /\ Idle
  /\ input = [calls |-> [c \in Callers |-> IdleCaller]]
  /\ output = NoOutput

\* An operation that is not a getCachedOrFetch step.
PlainCall(op, after) ==
  /\ cache' = after
  /\ output' = [returned |-> TRUE, op |-> op]
  /\ UNCHANGED <<jobs, tailors, feedback, now, req, fb, input>>

\* cache.set(k, 'w'): the default ttl applies.
OpsSet(k) ==
  /\ cache' = CacheSet(cache, SmallConfig, k, "w", Null, now)
  /\ output' = [returned |-> TRUE, op |-> "set",
                admitted |-> k \notin KeysOf(cache) /\ Len(cache) >= CacheCapacity]
  /\ UNCHANGED <<jobs, tailors, feedback, now, req, fb, input>>

\* get and has: an expired entry of the key is deleted.
OpsGet(k) == PlainCall("get", CacheAfterGet(cache, k, now))
OpsHas(k) == PlainCall("has", CacheAfterGet(cache, k, now))

OpsDelete(k) ==
  PlainCall("delete",
            IF CacheIndex(cache, k) = 0 THEN cache
            ELSE CacheRemoveAt(cache, CacheIndex(cache, k)))

OpsClear == PlainCall("clear", <<>>)

\* setInterval(() => this.cleanup(), 60 * 1000): the sweep runs between two
\* operations.
OpsCleanup ==
  /\ cache' = Cleanup(cache, 1, now)
  /\ output' = [returned |-> TRUE, op |-> "cleanup", at |-> now, before |-> cache]
  /\ UNCHANGED <<jobs, tailors, feedback, now, req, fb, input>>

\* The callers other than c whose producer for key k is pending and was
\* invoked no longer than the ttl ago.
PendingFor(c, k) ==
  {d \in Callers \ {c} :
     /\ input.calls[d].pc = "fetching" /\ input.calls[d].key = k
     /\ now - input.calls[d].at <= FetchTtl}

\* getCachedOrFetch up to its await: a hit returns the entry; on a miss
\* fetchFn is invoked and the caller waits for it.
FetchBegin(c, k) ==
  /\ input.calls[c].pc = "idle"
  /\ cache' = CacheAfterGet(cache, k, now)
  /\ LET hit == CacheGetHit(cache, k, now)
     IN /\ input' =
             IF hit THEN input
             ELSE [input EXCEPT !.calls[c] = [pc |-> "fetching", key |-> k, at |-> now]]
        /\ output' = [returned |-> TRUE, op |-> "fetch", hit |-> hit,
                      invoked |-> ~hit, pending |-> PendingFor(c, k) # {}]
  /\ UNCHANGED <<jobs, tailors, feedback, now, req, fb>>

\* The producer settles: its value is stored and returned, or its error is
\* thrown to the caller.
FetchEnd(c, reply) ==
  /\ input.calls[c].pc = "fetching"
  /\ cache' = IF reply.ok
              THEN CacheSet(cache, SmallConfig, input.calls[c].key, reply.val,
                            FetchTtl, now)
              ELSE cache
  /\ input' = [input EXCEPT !.calls[c] = IdleCaller]
  /\ output' = [returned |-> TRUE, op |-> "settle"]
  /\ UNCHANGED <<jobs, tailors, feedback, now, req, fb>>

OpsNext ==
  \/ \E k \in CacheKeys : OpsSet(k)
  \/ \E k \in CacheKeys : OpsGet(k) \/ OpsHas(k) \/ OpsDelete(k)
  \/ OpsClear
  \/ OpsCleanup
  \/ \E c \in Callers, k \in CacheKeys : FetchBegin(c, k)
  \/ \E c \in Callers, reply \in {Failed, Reply("v")} : FetchEnd(c, reply)
  \/ Tick

OpsSpec == OpsInit /\ [][OpsNext]_vars

\* C25: the sweep removes every entry whose age exceeds its ttl and no
\* other entry, whenever it runs, also while a getCachedOrFetch is between
\* its miss and its set; a get of a key at the time of the sweep gives the
\* same result after the sweep as before it.
SweepRemovesExactlyTheExpired ==
  (output.returned /\ output.op = "cleanup") =>
    /\ \A i \in 1..Len(output.before) :
         IF output.at - output.before[i].timestamp > output.before[i].ttl
         THEN output.before[i].key \notin KeysOf(cache)
         ELSE \E j \in 1..Len(cache) : cache[j] = output.before[i]
    /\ KeysOf(cache) \subseteq KeysOf(output.before)
    /\ \A k \in CacheKeys :
         /\ CacheGetHit(cache, k, output.at) = CacheGetHit(output.before, k, output.at)
         /\ CacheGetHit(cache, k, output.at) =>
              CacheGetData(cache, k) = CacheGetData(output.before, k)

\* The sweep ran on a full cache while a producer was pending and removed
\* one entry, keeping the other.
SweptBetweenMissAndSet ==
  /\ output.returned /\ output.op = "cleanup"
  /\ \E c \in Callers : input.calls[c].pc = "fetching"
  /\ Len(output.before) = CacheCapacity
  /\ Len(cache) = CacheCapacity - 1

\* C28: the number of stored entries never exceeds maxSize, whatever
\* sequence of set, get, has, delete, clear, cleanup and getCachedOrFetch
\* calls is made.
SizeWithinMaxSize == Len(cache) <= CacheCapacity

\* A set admitted a new key into a full cache, which is full again.
FullCacheAdmittedANewKey ==
  /\ output.returned /\ output.op = "set" /\ output.admitted
  /\ Len(cache) = CacheCapacity

\* C29: interleaved getCachedOrFetch calls on one key do not repeat the
\* producer: a call that finds an unexpired entry does not invoke it, and a
\* call does not invoke it while another call's producer for the same key,
\* invoked within the ttl, is pending.
ProducerInvokedOncePerWindow ==
  (output.returned /\ output.op = "fetch") =>
    /\ output.hit => ~output.invoked
    /\ output.invoked => ~output.pending

(***************************************************************************)
(* The rate limiter (rateLimit.ts) in front of the job-processing route.   *)
(* input.store is the limiter's store; input.first and input.n keep, for   *)
(* every key, the arrival time of the request that opened the key's        *)
(* current window and the number of requests of that window; output is the *)
(* limiter's last result.                                                  *)
(***************************************************************************)
\* openaiRateLimit: windowMs (one clock unit here) and maxRequests.
RateWindow == 1
RateMax == 2
RateConfig == [windowMs |-> RateWindow, maxRequests |-> RateMax]
RateKeys == {"openai:a", "openai:b"}

NoEntry == [count |-> 0, resetTime |-> Null]

\* Variant of the limiter that also refuses the request that reaches the
\* maximum.
RateLimitBelowMax(store, config, key, t) ==
  LET entry == IF store[key] = NoEntry \/ store[key].resetTime < t
               THEN [count |-> 0, resetTime |-> t + config.windowMs]
               ELSE store[key]
      count == entry.count + 1
  IN [store |-> [store EXCEPT ![key] = [entry EXCEPT !.count = count]],
      success |-> count < config.maxRequests,
      limit |-> config.maxRequests,
      remaining |-> MaxOf(0, config.maxRequests - count),
      resetTime |-> entry.resetTime]

\* The function createRateLimit(config) returns, called for key at time t.
RateLimit(store, config, key, t) ==
  LET entry == IF store[key] = NoEntry \/ store[key].resetTime < t
               THEN [count |-> 0, resetTime |-> t + config.windowMs]
               ELSE store[key]
      count == entry.count + 1
  IN [store |-> [store EXCEPT ![key] = [entry EXCEPT !.count = count]],
      success |-> count <= config.maxRequests,
      limit |-> config.maxRequests,
      remaining |-> MaxOf(0, config.maxRequests - count),
      resetTime |-> entry.resetTime]

RateInit ==
  /\ Idle
  /\ input = [store |-> [k \in RateKeys |-> NoEntry],
              first |-> [k \in RateKeys |-> Null],
              n |-> [k \in RateKeys |-> 0]]
  /\ output = NoOutput

\* A request with key k arrives at the limiter: the limiter's store and
\* result, and the window the request falls in.
Limited(k, res) ==
  /\ LET opens == input.first[k] = Null \/ now > input.first[k] + RateWindow
     IN /\ opens \/ input.n[k] < RateMax + 1
        /\ input' = [store |-> res.store,
                     first |-> [input.first EXCEPT
                                  ![k] = IF opens THEN now ELSE @],
                     n |-> [input.n EXCEPT ![k] = IF opens THEN 1 ELSE @ + 1]]
  /\ output' = [returned |-> TRUE, key |-> k, success |-> res.success,
                limit |-> res.limit, remaining |-> res.remaining,
                resetTime |-> res.resetTime]

\* A request of another rate-limited route with the same limiter.
RateLimitCall(k) ==
  /\ \E res \in {RateLimit(input.store, RateConfig, k, now)} : Limited(k, res)
  /\ UNCHANGED <<jobs, tailors, feedback, cache, now, req, fb>>

\* POST /api/jobs/process/[id] from its entry: the limiter refuses with 429,
\* or the handler goes on to calculateSimilarity.
PostEntry(r, j, k) ==
  /\ req[r].pc = "idle"
  /\ \E res \in {RateLimit(input.store, RateConfig, k, now)} :
       /\ Limited(k, res)
       /\ IF ~res.success
          THEN /\ req' = [req EXCEPT ![r] =
                            [@ EXCEPT !.pc = "done",
                                      !.response = Respond(429, "", Null, Null)]]
               /\ cache' = cache
          ELSE LET key == SimilarityKey(ResumeText, Description(j))
                   rq == [req[r] EXCEPT !.job = j]
               IN /\ cache' = CacheAfterGet(cache, key, now)
                  /\ req' = [req EXCEPT ![r] =
                               IF CacheGetHit(cache, key, now)
                               THEN AfterSimilarity(rq, CacheGetData(cache, key))
                               ELSE [rq EXCEPT !.pc = "embedding"]]
  /\ UNCHANGED <<jobs, tailors, feedback, now, fb>>

\* The handler's steps after its entry.
ProcessContinue(r) ==
  \/ \E sim \in Similarities : EmbeddingReturns(r, sim)
  \/ EmbeddingFails(r)
  \/ UpdateFitScore(r)
  \/ \E content \in Contents : ContentReturns(r, content)
  \/ ContentFails(r)
  \/ InsertTailor(r)
  \/ InsertTailorFails(r)
  \/ UpdateStatus(r)

\* setInterval: entries whose resetTime has passed are deleted.
RateSweep ==
  /\ input' = [input EXCEPT !.store =
                 [k \in RateKeys |->
                    IF input.store[k] # NoEntry /\ input.store[k].resetTime < now
                    THEN NoEntry ELSE input.store[k]]]
  /\ UNCHANGED <<jobs, tailors, feedback, cache, now, req, fb, output>>

RateNext ==
  \/ \E k \in RateKeys : RateLimitCall(k)
  \/ \E r \in ReqIds, j \in JobIds, k \in RateKeys : PostEntry(r, j, k)
  \/ \E r \in ReqIds : ProcessContinue(r)
  \/ RateSweep
  \/ Tick

RateSpec == RateInit /\ [][RateNext]_vars

\* C30: within a window of a key (from the request that opens it until its
\* resetTime) the n-th request succeeds exactly when n <= maxRequests and is
\* told max(0, maxRequests - n) remaining, never a negative number; a request
\* after the resetTime opens a new window as its first request; and a
\* job-processing request that the limiter refused is answered 429 and has
\* made no AI call and no database write.
RateLimitCountsEachWindow ==
  /\ output.returned =>
       LET n == input.n[output.key]
       IN /\ output.success <=> n <= RateMax
          /\ output.remaining = (IF n <= RateMax THEN RateMax - n ELSE 0)
          /\ output.remaining >= 0
          /\ output.resetTime = input.first[output.key] + RateWindow
  /\ \A r \in ReqIds :
       req[r].response.http = 429 =>
         /\ req[r].pc = "done"
         /\ req[r].job = Null /\ req[r].sim = Null /\ ~req[r].calledContent
         /\ req[r].tailorId = Null
         /\ fb[AsyncOf(r)] = NoAttempt
  /\ (\A r \in ReqIds : req[r].pc = "idle" \/ req[r].response.http = 429) =>
       /\ jobs = [j \in JobIds |-> [status |-> "pending", fit_score |-> Null]]
       /\ tailors = <<>> /\ feedback = <<>> /\ cache = <<>>

\* A window was exhausted, a job-processing request was refused in it, and
\* after the resetTime a request opened a new window and succeeded.
RefusedThenNewWindow ==
  /\ output.returned /\ output.success
  /\ input.n[output.key] = 1 /\ input.first[output.key] > 0
  /\ \E r \in ReqIds : req[r].response.http = 429

====
